---- MODULE Spec2Model ----
(***************************************************************************)
(* Model of C/shader-cube/cube.c: a GLUT program that loads two shader     *)
(* files, compiles and links them, uploads a cube and then rotates it in   *)
(* the toolkit's event loop in response to special keys.                   *)
(*                                                                         *)
(* The process is one sequential thread.  main() is modelled as a program  *)
(* counter pc moving through the basic blocks of main/init/init_shaders;   *)
(* once glutMainLoop is entered the toolkit dispatches doSpecialKey and    *)
(* display, one callback at a time.                                        *)
(***************************************************************************)
EXTENDS Integers, Sequences, FiniteSets, TLC

(***************************************************************************)
(* Bounds of the model                                                     *)
(***************************************************************************)
MaxFileSize == 2        \* longest shader file the environment offers, in bytes
MaxKeys     == 4        \* key events dispatched during one run of the loop

(***************************************************************************)
(* Values of the program and of the libraries it calls                     *)
(***************************************************************************)
NULL == 0
\* freeglut's codes of the special keys tested by doSpecialKey
GLUT_KEY_LEFT      == 100
GLUT_KEY_UP        == 101
GLUT_KEY_RIGHT     == 102
GLUT_KEY_DOWN      == 103
GLUT_KEY_PAGE_UP   == 104
GLUT_KEY_PAGE_DOWN == 105
GLUT_KEY_HOME      == 106
\* two special keys doSpecialKey does not test: GLUT_KEY_F1 and GLUT_KEY_END
OtherKeys == {1, 107}
RecognizedKeys == {GLUT_KEY_LEFT, GLUT_KEY_UP, GLUT_KEY_RIGHT, GLUT_KEY_DOWN,
                   GLUT_KEY_PAGE_UP, GLUT_KEY_PAGE_DOWN, GLUT_KEY_HOME}
Keys == RecognizedKeys \cup OtherKeys

\* range of the C type int of rotateX, rotateY, rotateZ
INT_MAX == 2147483647
INT_MIN == -INT_MAX - 1

\* bytes a shader file may hold: the NUL byte and '/'
Bytes == {0, 47}
\* content of a malloc'ed byte that was never written
Uninit == -1

GL_VERTEX_SHADER   == "GL_VERTEX_SHADER"
GL_FRAGMENT_SHADER == "GL_FRAGMENT_SHADER"
VertexPath   == "shaders/vertex.glsl"
FragmentPath == "shaders/fragment.glsl"

MsgOpen(path) == <<"Failed to open file", path>>
MsgAlloc      == <<"Failed to allocate memory for file content">>
MsgRead       == <<"Failed to read file content">>
MsgCompile    == <<"ERROR::SHADER::COMPILATION_FAILED">>
MsgLink       == <<"ERROR::SHADER::PROGRAM::LINKING_FAILED">>

VARIABLES
    pc,                     \* position of main()
    exitCode,               \* argument of exit(), "none" while running
    out,                    \* lines printed on stdout
    heap,                   \* malloc'ed blocks, indexed by allocation
    vertex_shader_source,   \* locals of init_shaders
    fragment_shader_source,
    vertex_shader,
    fragment_shader,
    glShaders,              \* shader objects of the GL context, by name
    glPrograms,             \* program objects of the GL context, by name
    glBuffers,              \* buffer objects, by name
    glVertexArrays,         \* vertex array objects, by name
    shader_program, VAO, VBO,
    displayFunc, specialFunc,       \* callbacks registered with GLUT
    rotateX, rotateY, rotateZ,
    redisplay,              \* GLUT's "window needs redisplay" mark
    modelview,              \* GL's current modelview matrix
    uniformModel,           \* value of the program's uniform "model"
    front,                  \* the frame on screen (front buffer)
    presses,                \* history: presses of each key since the last Home
    nkeys,                  \* history: key events handled by doSpecialKey
    pending,                \* history: key events handled since the last frame
    ldFile, ldResult        \* a call of read_shader_source: argument, result

vars == <<pc, exitCode, out, heap, vertex_shader_source, fragment_shader_source,
          vertex_shader, fragment_shader, glShaders, glPrograms, glBuffers,
          glVertexArrays, shader_program, VAO, VBO, displayFunc, specialFunc,
          rotateX, rotateY, rotateZ, redisplay, modelview, uniformModel, front,
          presses, nkeys, pending, ldFile, ldResult>>

initVars  == <<vertex_shader_source, fragment_shader_source, vertex_shader,
               fragment_shader, glShaders, glPrograms, shader_program>>
bufVars   == <<glBuffers, glVertexArrays, VAO, VBO>>
loopVars  == <<rotateX, rotateY, rotateZ, redisplay, modelview, uniformModel,
               front, presses, nkeys, pending>>
cbVars    == <<displayFunc, specialFunc>>
ldVars    == <<ldFile, ldResult>>

(***************************************************************************)
(* Files as the environment presents them to read_shader_source            *)
(***************************************************************************)
RECURSIVE SeqsUpTo(_, _)
SeqsUpTo(S, n) ==
    IF n = 0 THEN {<<>>}
    ELSE LET shorter == SeqsUpTo(S, n - 1)
         IN  shorter \cup {Append(s, b) : s \in {t \in shorter : Len(t) = n - 1}, b \in S}

\* exists: fopen succeeds; content: the bytes of the file; mem: malloc
\* succeeds; avail: the number of bytes fread delivers (less than the size
\* on a read error)
FilesOf(path) ==
    {[path |-> path, exists |-> FALSE, content |-> <<>>, mem |-> TRUE, avail |-> 0]}
    \cup
    {[path |-> path, exists |-> TRUE, content |-> c, mem |-> m, avail |-> a] :
        c \in SeqsUpTo(Bytes, MaxFileSize), m \in BOOLEAN, a \in 0..MaxFileSize}

Files(path) == {f \in FilesOf(path) : f.avail <= Len(f.content)}

(***************************************************************************)
(* The heap                                                                *)
(***************************************************************************)
malloc(h, n) == Append(h, [bytes |-> [i \in 1..n |-> Uninit], live |-> TRUE, frees |-> 0])

free(h, p) == [h EXCEPT ![p].live = FALSE, ![p].frees = @ + 1, ![p].bytes = <<>>]

\* fread(content, 1, n, file): the first n bytes of the block are overwritten
fread(h, p, data, n) ==
    [h EXCEPT ![p].bytes = [i \in 1..Len(@) |-> IF i <= n THEN data[i] ELSE @[i]]]

\* faulty variant of read_shader_source: the number of bytes read is not compared with the size
read_shader_source_NoShortCheck(f, h) ==
    IF ~f.exists
    THEN [ret |-> NULL, heap |-> h, out |-> <<MsgOpen(f.path)>>, freads |-> 0]
    ELSE LET fileSize == Len(f.content)
         IN  IF ~f.mem
             THEN [ret |-> NULL, heap |-> h, out |-> <<MsgAlloc>>, freads |-> 0]
             ELSE LET h1        == malloc(h, fileSize + 1)
                      content   == Len(h1)
                      bytesRead == f.avail
                      h2        == fread(h1, content, f.content, bytesRead)
                  IN  IF FALSE
                      THEN [ret |-> NULL, heap |-> free(h2, content),
                            out |-> <<MsgRead>>, freads |-> 1]
                      ELSE [ret |-> content,
                            heap |-> [h2 EXCEPT ![content].bytes[fileSize + 1] = 0],
                            out |-> <<>>, freads |-> 1]


(***************************************************************************)
(* read_shader_source, cube.c:11-40.  Result: ret, the pointer returned    *)
(* (NULL or the index of the block); heap, the heap afterwards; out, the   *)
(* lines printed; freads, the number of fread calls made.                  *)
(***************************************************************************)
read_shader_source(f, h) ==
    IF ~f.exists
    THEN [ret |-> NULL, heap |-> h, out |-> <<MsgOpen(f.path)>>, freads |-> 0]
    ELSE LET fileSize == Len(f.content)
         IN  IF ~f.mem
             THEN [ret |-> NULL, heap |-> h, out |-> <<MsgAlloc>>, freads |-> 0]
             ELSE LET h1        == malloc(h, fileSize + 1)
                      content   == Len(h1)
                      bytesRead == f.avail
                      h2        == fread(h1, content, f.content, bytesRead)
                  IN  IF bytesRead < fileSize
                      THEN [ret |-> NULL, heap |-> free(h2, content),
                            out |-> <<MsgRead>>, freads |-> 1]
                      ELSE [ret |-> content,
                            heap |-> [h2 EXCEPT ![content].bytes[fileSize + 1] = 0],
                            out |-> <<>>, freads |-> 1]

(***************************************************************************)
(* The GL objects used by init_shaders                                     *)
(***************************************************************************)
\* the C string glShaderSource reads at a pointer into block bytes: chars,
\* the bytes before the first NUL; nul, whether the block holds a NUL at
\* all (without one, or in a freed block, the read runs past the block)
RECURSIVE CString(_)
CString(bytes) ==
    IF bytes = <<>> THEN [chars |-> <<>>, nul |-> FALSE]
    ELSE IF Head(bytes) = 0 THEN [chars |-> <<>>, nul |-> TRUE]
    ELSE LET rest == CString(Tail(bytes))
         IN  [chars |-> <<Head(bytes)>> \o rest.chars, nul |-> rest.nul]

\* compile_shader, cube.c:43-57.  source is the C string read at the
\* pointer passed, of which the shader object records only whether it lay
\* inside its block; ok is the GL_COMPILE_STATUS the driver reports for it.
\* Result: ret, the name returned (0 on failure); shaders, the shader
\* objects afterwards; out, the lines printed.
compile_shader(type, source, shaders, ok) ==
    LET created == Append(shaders, [type |-> type, inBlock |-> source.nul,
                                    compiled |-> ok, deleted |-> FALSE])
        shader  == Len(created)
    IN  IF ~ok
        THEN [ret |-> 0, shaders |-> created, out |-> <<MsgCompile>>]
        ELSE [ret |-> shader, shaders |-> created, out |-> <<>>]

glDeleteShader(shaders, s) == [shaders EXCEPT ![s].deleted = TRUE]

\* exit(1)
Exit(code) == /\ pc' = "exited"
              /\ exitCode' = code

(***************************************************************************)
(* main up to glutMainLoop                                                 *)
(***************************************************************************)
\* main, cube.c:231-234 and init, cube.c:159-160: the window and the GL
\* context exist, nothing of the program's own has been created
MainSetup ==
    /\ pc = "main"
    /\ pc' = "read_vertex"
    /\ UNCHANGED <<exitCode, out, heap, initVars, bufVars, cbVars, loopVars, ldVars>>

\* init_shaders, cube.c:61-64
ReadVertexSource ==
    /\ pc = "read_vertex"
    /\ \E f \in Files(VertexPath) :
         LET r == read_shader_source(f, heap)
         IN  /\ vertex_shader_source' = r.ret
             /\ heap' = r.heap
             /\ out' = out \o r.out
             /\ IF r.ret = NULL
                THEN Exit(1)
                ELSE pc' = "compile_vertex" /\ UNCHANGED exitCode
    /\ UNCHANGED <<fragment_shader_source, vertex_shader, fragment_shader, glShaders,
                   glPrograms, shader_program, bufVars, cbVars, loopVars, ldVars>>

\* init_shaders, cube.c:67
CompileVertex ==
    /\ pc = "compile_vertex"
    /\ \E ok \in BOOLEAN :
         LET r == compile_shader(GL_VERTEX_SHADER,
                                 CString(heap[vertex_shader_source].bytes), glShaders, ok)
         IN  /\ vertex_shader' = r.ret
             /\ glShaders' = r.shaders
             /\ out' = out \o r.out
    /\ pc' = "free_vertex"
    /\ UNCHANGED <<exitCode, heap, vertex_shader_source, fragment_shader_source, fragment_shader,
                   glPrograms, shader_program, bufVars, cbVars, loopVars, ldVars>>

\* init_shaders, cube.c:68
FreeVertexSource ==
    /\ pc = "free_vertex"
    /\ heap' = free(heap, vertex_shader_source)
    /\ pc' = "check_vertex"
    /\ UNCHANGED <<exitCode, out, initVars, bufVars, cbVars, loopVars, ldVars>>

\* init_shaders, cube.c:69
CheckVertex ==
    /\ pc = "check_vertex"
    /\ IF vertex_shader = 0
       THEN Exit(1)
       ELSE pc' = "read_fragment" /\ UNCHANGED exitCode
    /\ UNCHANGED <<out, heap, initVars, bufVars, cbVars, loopVars, ldVars>>

\* init_shaders, cube.c:72-75
ReadFragmentSource ==
    /\ pc = "read_fragment"
    /\ \E f \in Files(FragmentPath) :
         LET r == read_shader_source(f, heap)
         IN  /\ fragment_shader_source' = r.ret
             /\ heap' = r.heap
             /\ out' = out \o r.out
             /\ IF r.ret = NULL
                THEN Exit(1)
                ELSE pc' = "compile_fragment" /\ UNCHANGED exitCode
    /\ UNCHANGED <<vertex_shader_source, vertex_shader, fragment_shader, glShaders,
                   glPrograms, shader_program, bufVars, cbVars, loopVars, ldVars>>

\* init_shaders, cube.c:76
CompileFragment ==
    /\ pc = "compile_fragment"
    /\ \E ok \in BOOLEAN :
         LET r == compile_shader(GL_FRAGMENT_SHADER,
                                 CString(heap[fragment_shader_source].bytes), glShaders, ok)
         IN  /\ fragment_shader' = r.ret
             /\ glShaders' = r.shaders
             /\ out' = out \o r.out
    /\ pc' = "free_fragment"
    /\ UNCHANGED <<exitCode, heap, vertex_shader_source, fragment_shader_source, vertex_shader,
                   glPrograms, shader_program, bufVars, cbVars, loopVars, ldVars>>

\* faulty variant of FreeFragmentSource: the vertex source is freed again instead of the fragment source
FreeFragmentSource_FreesVertex ==
    /\ pc = "free_fragment"
    /\ heap' = free(heap, vertex_shader_source)
    /\ pc' = "check_fragment"
    /\ UNCHANGED <<exitCode, out, initVars, bufVars, cbVars, loopVars, ldVars>>

\* init_shaders, cube.c:77
FreeFragmentSource ==
    /\ pc = "free_fragment"
    /\ heap' = free(heap, fragment_shader_source)
    /\ pc' = "check_fragment"
    /\ UNCHANGED <<exitCode, out, initVars, bufVars, cbVars, loopVars, ldVars>>

\* faulty variant of CheckFragment: the result of compiling the fragment stage is not examined
CheckFragment_NoExit ==
    /\ pc = "check_fragment"
    /\ pc' = "link"
    /\ UNCHANGED exitCode
    /\ UNCHANGED <<out, heap, initVars, bufVars, cbVars, loopVars, ldVars>>

\* init_shaders, cube.c:78
CheckFragment ==
    /\ pc = "check_fragment"
    /\ IF fragment_shader = 0
       THEN Exit(1)
       ELSE pc' = "link" /\ UNCHANGED exitCode
    /\ UNCHANGED <<out, heap, initVars, bufVars, cbVars, loopVars, ldVars>>

\* init_shaders, cube.c:81-84: the driver decides whether the stages link
\* and whether the linked program has an active uniform named "model"
\* (modelLoc is what glGetUniformLocation will answer: 0 or -1)
LinkShaders ==
    /\ pc = "link"
    /\ \E ok \in BOOLEAN, loc \in {0, -1} :
         glPrograms' = Append(glPrograms,
                              [attached |-> <<vertex_shader, fragment_shader>>,
                               linked |-> ok,
                               modelLoc |-> IF ok THEN loc ELSE -1])
    /\ shader_program' = Len(glPrograms')
    /\ pc' = "check_link"
    /\ UNCHANGED <<exitCode, out, heap, vertex_shader_source, fragment_shader_source,
                   vertex_shader, fragment_shader, glShaders, bufVars, cbVars,
                   loopVars, ldVars>>

\* init_shaders, cube.c:89-94
CheckLink ==
    /\ pc = "check_link"
    /\ IF ~glPrograms[shader_program].linked
       THEN /\ out' = Append(out, MsgLink)
            /\ Exit(1)
       ELSE /\ pc' = "delete_shaders"
            /\ UNCHANGED <<out, exitCode>>
    /\ UNCHANGED <<heap, initVars, bufVars, cbVars, loopVars, ldVars>>

\* faulty variant of DeleteShaders: the vertex stage is deleted twice, the fragment stage never
DeleteShaders_VertexTwice ==
    /\ pc = "delete_shaders"
    /\ glShaders' = glDeleteShader(glDeleteShader(glShaders, vertex_shader), vertex_shader)
    /\ pc' = "init_buffers"
    /\ UNCHANGED <<exitCode, out, heap, vertex_shader_source, fragment_shader_source,
                   vertex_shader, fragment_shader, glPrograms, shader_program,
                   bufVars, cbVars, loopVars, ldVars>>

\* init_shaders, cube.c:96-98
DeleteShaders ==
    /\ pc = "delete_shaders"
    /\ glShaders' = glDeleteShader(glDeleteShader(glShaders, vertex_shader), fragment_shader)
    /\ pc' = "init_buffers"
    /\ UNCHANGED <<exitCode, out, heap, vertex_shader_source, fragment_shader_source,
                   vertex_shader, fragment_shader, glPrograms, shader_program,
                   bufVars, cbVars, loopVars, ldVars>>

(***************************************************************************)
(* init_buffers, cube.c:100-156                                            *)
(***************************************************************************)
\* float vertices[], cube.c:102-144, in units of 0.5: 36 vertices of 3
\* coordinates, two triangles for each of the 6 faces
vertices ==
    <<-1,-1,-1,   1,-1,-1,   1, 1,-1,   1, 1,-1,  -1, 1,-1,  -1,-1,-1,
      -1,-1, 1,   1,-1, 1,   1, 1, 1,   1, 1, 1,  -1, 1, 1,  -1,-1, 1,
      -1, 1, 1,  -1, 1,-1,  -1,-1,-1,  -1,-1,-1,  -1,-1, 1,  -1, 1, 1,
       1, 1, 1,   1, 1,-1,   1,-1,-1,   1,-1,-1,   1,-1, 1,   1, 1, 1,
      -1,-1,-1,   1,-1,-1,   1,-1, 1,   1,-1, 1,  -1,-1, 1,  -1,-1,-1,
      -1, 1,-1,   1, 1,-1,   1, 1, 1,   1, 1, 1,  -1, 1, 1,  -1, 1,-1>>

InitBuffers ==
    /\ pc = "init_buffers"
    /\ glVertexArrays' = Append(glVertexArrays,
                                [attrib |-> 0, size |-> 3, enabled |-> TRUE,
                                 buffer |-> Len(glBuffers) + 1])
    /\ glBuffers' = Append(glBuffers, [data |-> vertices, usage |-> "GL_STATIC_DRAW"])
    /\ VAO' = Len(glVertexArrays')
    /\ VBO' = Len(glBuffers')
    /\ pc' = "register"
    /\ UNCHANGED <<exitCode, out, heap, initVars, cbVars, loopVars, ldVars>>

\* main, cube.c:238-239
RegisterCallbacks ==
    /\ pc = "register"
    /\ displayFunc' = "display"
    /\ specialFunc' = "doSpecialKey"
    /\ pc' = "main_loop"
    /\ UNCHANGED <<exitCode, out, heap, initVars, bufVars, loopVars, ldVars>>

\* main, cube.c:240: glutMainLoop takes over; the new window is due its
\* first display
EnterMainLoop ==
    /\ pc = "main_loop"
    /\ pc' = "loop"
    /\ redisplay' = TRUE
    /\ UNCHANGED <<exitCode, out, heap, initVars, bufVars, cbVars, rotateX, rotateY,
                   rotateZ, modelview, uniformModel, front, presses, nkeys,
                   pending, ldVars>>

(***************************************************************************)
(* doSpecialKey, cube.c:172-193                                            *)
(***************************************************************************)
\* a + d in the type int: signed overflow is undefined, any int may result
IntAdd(a, d) == IF a + d \in INT_MIN..INT_MAX THEN {a + d} ELSE INT_MIN..INT_MAX

\* faulty variant of doSpecialKeyResults: Up turns the same way as Down
doSpecialKeyResults_UpAdds(key, x, y, z) ==
    IF key = GLUT_KEY_LEFT
    THEN {[x |-> x, y |-> v, z |-> z, redraw |-> 1] : v \in IntAdd(y, -15)}
    ELSE IF key = GLUT_KEY_RIGHT
    THEN {[x |-> x, y |-> v, z |-> z, redraw |-> 1] : v \in IntAdd(y, 15)}
    ELSE IF key = GLUT_KEY_DOWN
    THEN {[x |-> v, y |-> y, z |-> z, redraw |-> 1] : v \in IntAdd(x, 15)}
    ELSE IF key = GLUT_KEY_UP
    THEN {[x |-> v, y |-> y, z |-> z, redraw |-> 1] : v \in IntAdd(x, 15)}
    ELSE IF key = GLUT_KEY_PAGE_UP
    THEN {[x |-> x, y |-> y, z |-> v, redraw |-> 1] : v \in IntAdd(z, 15)}
    ELSE IF key = GLUT_KEY_PAGE_DOWN
    THEN {[x |-> x, y |-> y, z |-> v, redraw |-> 1] : v \in IntAdd(z, -15)}
    ELSE IF key = GLUT_KEY_HOME
    THEN {[x |-> 0, y |-> 0, z |-> 0, redraw |-> 1]}
    ELSE {[x |-> x, y |-> y, z |-> z, redraw |-> 0]}

\* faulty variant of doSpecialKeyResults: the final else does not clear redraw
doSpecialKeyResults_AlwaysRedraw(key, x, y, z) ==
    IF key = GLUT_KEY_LEFT
    THEN {[x |-> x, y |-> v, z |-> z, redraw |-> 1] : v \in IntAdd(y, -15)}
    ELSE IF key = GLUT_KEY_RIGHT
    THEN {[x |-> x, y |-> v, z |-> z, redraw |-> 1] : v \in IntAdd(y, 15)}
    ELSE IF key = GLUT_KEY_DOWN
    THEN {[x |-> v, y |-> y, z |-> z, redraw |-> 1] : v \in IntAdd(x, 15)}
    ELSE IF key = GLUT_KEY_UP
    THEN {[x |-> v, y |-> y, z |-> z, redraw |-> 1] : v \in IntAdd(x, -15)}
    ELSE IF key = GLUT_KEY_PAGE_UP
    THEN {[x |-> x, y |-> y, z |-> v, redraw |-> 1] : v \in IntAdd(z, 15)}
    ELSE IF key = GLUT_KEY_PAGE_DOWN
    THEN {[x |-> x, y |-> y, z |-> v, redraw |-> 1] : v \in IntAdd(z, -15)}
    ELSE IF key = GLUT_KEY_HOME
    THEN {[x |-> 0, y |-> 0, z |-> 0, redraw |-> 1]}
    ELSE {[x |-> x, y |-> y, z |-> z, redraw |-> 1]}

\* faulty variant of doSpecialKeyResults: PageUp and PageDown turn the cube without asking for a redraw
doSpecialKeyResults_PageNoRedraw(key, x, y, z) ==
    IF key = GLUT_KEY_LEFT
    THEN {[x |-> x, y |-> v, z |-> z, redraw |-> 1] : v \in IntAdd(y, -15)}
    ELSE IF key = GLUT_KEY_RIGHT
    THEN {[x |-> x, y |-> v, z |-> z, redraw |-> 1] : v \in IntAdd(y, 15)}
    ELSE IF key = GLUT_KEY_DOWN
    THEN {[x |-> v, y |-> y, z |-> z, redraw |-> 1] : v \in IntAdd(x, 15)}
    ELSE IF key = GLUT_KEY_UP
    THEN {[x |-> v, y |-> y, z |-> z, redraw |-> 1] : v \in IntAdd(x, -15)}
    ELSE IF key = GLUT_KEY_PAGE_UP
    THEN {[x |-> x, y |-> y, z |-> v, redraw |-> 0] : v \in IntAdd(z, 15)}
    ELSE IF key = GLUT_KEY_PAGE_DOWN
    THEN {[x |-> x, y |-> y, z |-> v, redraw |-> 0] : v \in IntAdd(z, -15)}
    ELSE IF key = GLUT_KEY_HOME
    THEN {[x |-> 0, y |-> 0, z |-> 0, redraw |-> 1]}
    ELSE {[x |-> x, y |-> y, z |-> z, redraw |-> 0]}

\* faulty variant of doSpecialKeyResults: Home asks for a redraw only when it changed an angle
doSpecialKeyResults_RedrawOnChange(key, x, y, z) ==
    IF key = GLUT_KEY_LEFT
    THEN {[x |-> x, y |-> v, z |-> z, redraw |-> 1] : v \in IntAdd(y, -15)}
    ELSE IF key = GLUT_KEY_RIGHT
    THEN {[x |-> x, y |-> v, z |-> z, redraw |-> 1] : v \in IntAdd(y, 15)}
    ELSE IF key = GLUT_KEY_DOWN
    THEN {[x |-> v, y |-> y, z |-> z, redraw |-> 1] : v \in IntAdd(x, 15)}
    ELSE IF key = GLUT_KEY_UP
    THEN {[x |-> v, y |-> y, z |-> z, redraw |-> 1] : v \in IntAdd(x, -15)}
    ELSE IF key = GLUT_KEY_PAGE_UP
    THEN {[x |-> x, y |-> y, z |-> v, redraw |-> 1] : v \in IntAdd(z, 15)}
    ELSE IF key = GLUT_KEY_PAGE_DOWN
    THEN {[x |-> x, y |-> y, z |-> v, redraw |-> 1] : v \in IntAdd(z, -15)}
    ELSE IF key = GLUT_KEY_HOME
    THEN {[x |-> 0, y |-> 0, z |-> 0,
           redraw |-> IF <<x, y, z>> = <<0, 0, 0>> THEN 0 ELSE 1]}
    ELSE {[x |-> x, y |-> y, z |-> z, redraw |-> 0]}

\* the outcomes of doSpecialKey(key, _, _) called with the angles x, y, z:
\* the angles afterwards and the local redraw
doSpecialKeyResults(key, x, y, z) ==
    IF key = GLUT_KEY_LEFT
    THEN {[x |-> x, y |-> v, z |-> z, redraw |-> 1] : v \in IntAdd(y, -15)}
    ELSE IF key = GLUT_KEY_RIGHT
    THEN {[x |-> x, y |-> v, z |-> z, redraw |-> 1] : v \in IntAdd(y, 15)}
    ELSE IF key = GLUT_KEY_DOWN
    THEN {[x |-> v, y |-> y, z |-> z, redraw |-> 1] : v \in IntAdd(x, 15)}
    ELSE IF key = GLUT_KEY_UP
    THEN {[x |-> v, y |-> y, z |-> z, redraw |-> 1] : v \in IntAdd(x, -15)}
    ELSE IF key = GLUT_KEY_PAGE_UP
    THEN {[x |-> x, y |-> y, z |-> v, redraw |-> 1] : v \in IntAdd(z, 15)}
    ELSE IF key = GLUT_KEY_PAGE_DOWN
    THEN {[x |-> x, y |-> y, z |-> v, redraw |-> 1] : v \in IntAdd(z, -15)}
    ELSE IF key = GLUT_KEY_HOME
    THEN {[x |-> 0, y |-> 0, z |-> 0, redraw |-> 1]}
    ELSE {[x |-> x, y |-> y, z |-> z, redraw |-> 0]}

NoPresses == [k \in Keys \ {GLUT_KEY_HOME} |-> 0]

\* the event loop dispatches one special-key event to the registered
\* callback; glutPostRedisplay only marks the window
doSpecialKey(key) ==
    /\ pc = "loop"
    /\ specialFunc = "doSpecialKey"
    /\ nkeys < MaxKeys
    /\ \E r \in doSpecialKeyResults(key, rotateX, rotateY, rotateZ) :
         /\ rotateX' = r.x
         /\ rotateY' = r.y
         /\ rotateZ' = r.z
         /\ redisplay' = IF r.redraw # 0 THEN TRUE ELSE redisplay
    /\ nkeys' = nkeys + 1
    /\ presses' = IF key = GLUT_KEY_HOME THEN NoPresses
                  ELSE [presses EXCEPT ![key] = @ + 1]
    /\ pending' = pending + 1
    /\ UNCHANGED <<pc, exitCode, out, heap, initVars, bufVars, cbVars, modelview,
                   uniformModel, front, ldVars>>

SpecialKey == \E key \in Keys : doSpecialKey(key)

(***************************************************************************)
(* draw, cube.c:196-216, and display, cube.c:220-228                       *)
(***************************************************************************)
\* A matrix is kept as the product it was built as: the sequence of the
\* factors post-multiplied onto the identity.
Identity == <<>>
glRotatef(m, angle, x, y, z) ==
    Append(m, [op |-> "rotate", angle |-> angle, x |-> x, y |-> y, z |-> z, den |-> 1])
\* glScalef(x/den, y/den, z/den)
glScalef(m, x, y, z, den) ==
    Append(m, [op |-> "scale", angle |-> 0, x |-> x, y |-> y, z |-> z, den |-> den])

\* faulty variant of draw: glLoadIdentity is missing
draw_NoLoadIdentity(m, rx, ry, rz) ==
    LET loaded  == m
        rotated == glRotatef(glRotatef(glRotatef(loaded, rx, 1, 0, 0), ry, 0, 1, 0),
                             rz, 0, 0, 1)
    IN  [modelMatrix |-> rotated,
         current     |-> glScalef(rotated, 1, 1, 1, 2)]

\* the matrix calls of draw on the current matrix m with the angles rx, ry,
\* rz: modelMatrix is what glGetFloatv copies out and glUniformMatrix4fv is
\* given, current is the modelview matrix draw leaves behind
draw(m, rx, ry, rz) ==
    LET loaded  == Identity
        rotated == glRotatef(glRotatef(glRotatef(loaded, rx, 1, 0, 0), ry, 0, 1, 0),
                             rz, 0, 0, 1)
    IN  [modelMatrix |-> rotated,
         current     |-> glScalef(rotated, 1, 1, 1, 2)]

\* faulty variant of Display: every frame uploads the cube again, as init_buffers does
Display_RecreatesBuffers ==
    /\ pc = "loop"
    /\ displayFunc = "display"
    /\ redisplay
    /\ redisplay' = FALSE
    /\ LET d        == draw(modelview, rotateX, rotateY, rotateZ)
           modelLoc == glPrograms[shader_program].modelLoc
           uniform  == IF modelLoc # -1 THEN d.modelMatrix ELSE uniformModel
       IN  /\ modelview' = d.current
           /\ uniformModel' = uniform
           /\ front' = [program  |-> shader_program,
                        vao      |-> VAO,
                        count    |-> 36,
                        angles   |-> <<rotateX, rotateY, rotateZ>>,
                        uploaded |-> d.modelMatrix,
                        model    |-> uniform,
                        batch    |-> pending]
    /\ pending' = 0
    /\ glVertexArrays' = Append(glVertexArrays,
                                [attrib |-> 0, size |-> 3, enabled |-> TRUE,
                                 buffer |-> Len(glBuffers) + 1])
    /\ glBuffers' = Append(glBuffers, [data |-> vertices, usage |-> "GL_STATIC_DRAW"])
    /\ VAO' = Len(glVertexArrays')
    /\ VBO' = Len(glBuffers')
    /\ UNCHANGED <<pc, exitCode, out, heap, initVars, cbVars, rotateX, rotateY,
                   rotateZ, presses, nkeys, ldVars>>

\* the event loop dispatches the pending redisplay to display(): clear, draw
\* the 36 vertices with the program and the matrix, swap the buffers
Display ==
    /\ pc = "loop"
    /\ displayFunc = "display"
    /\ redisplay
    /\ redisplay' = FALSE
    /\ LET d        == draw(modelview, rotateX, rotateY, rotateZ)
           modelLoc == glPrograms[shader_program].modelLoc
           uniform  == IF modelLoc # -1 THEN d.modelMatrix ELSE uniformModel
       IN  /\ modelview' = d.current
           /\ uniformModel' = uniform
           /\ front' = [program  |-> shader_program,
                        vao      |-> VAO,
                        count    |-> 36,
                        angles   |-> <<rotateX, rotateY, rotateZ>>,
                        uploaded |-> d.modelMatrix,
                        model    |-> uniform,
                        batch    |-> pending]
    /\ pending' = 0
    /\ UNCHANGED <<pc, exitCode, out, heap, initVars, bufVars, cbVars, rotateX, rotateY,
                   rotateZ, presses, nkeys, ldVars>>

\* the toolkit's own repaint schedule: the window is exposed and marked
Expose ==
    /\ pc = "loop"
    /\ ~redisplay
    /\ redisplay' = TRUE
    /\ UNCHANGED <<pc, exitCode, out, heap, initVars, bufVars, cbVars, rotateX, rotateY,
                   rotateZ, modelview, uniformModel, front, presses, nkeys,
                   pending, ldVars>>

(***************************************************************************)
(* The program                                                             *)
(***************************************************************************)
Blank == [program |-> 0, vao |-> 0, count |-> 0, angles |-> <<0, 0, 0>>,
          uploaded |-> Identity, model |-> Identity, batch |-> 0]

ProgramStart ==
    /\ exitCode = "none"
    /\ out = <<>>
    /\ heap = <<>>
    /\ vertex_shader_source = NULL
    /\ fragment_shader_source = NULL
    /\ vertex_shader = 0
    /\ fragment_shader = 0
    /\ glShaders = <<>>
    /\ glPrograms = <<>>
    /\ glBuffers = <<>>
    /\ glVertexArrays = <<>>
    /\ shader_program = 0
    /\ VAO = 0
    /\ VBO = 0
    /\ displayFunc = "none"
    /\ specialFunc = "none"
    /\ rotateX = 0
    /\ rotateY = 0
    /\ rotateZ = 0
    /\ redisplay = FALSE
    /\ modelview = Identity
    /\ uniformModel = Identity
    /\ front = Blank
    /\ presses = NoPresses
    /\ nkeys = 0
    /\ pending = 0

NoFile   == [path |-> "", exists |-> FALSE, content |-> <<>>, mem |-> TRUE, avail |-> 0]
NoResult == [ret |-> NULL, freads |-> 0]

Init ==
    /\ pc = "main"
    /\ ProgramStart
    /\ ldFile = NoFile
    /\ ldResult = NoResult

Next ==
    \/ MainSetup
    \/ ReadVertexSource
    \/ CompileVertex
    \/ FreeVertexSource
    \/ CheckVertex
    \/ ReadFragmentSource
    \/ CompileFragment
    \/ FreeFragmentSource
    \/ CheckFragment
    \/ LinkShaders
    \/ CheckLink
    \/ DeleteShaders
    \/ InitBuffers
    \/ RegisterCallbacks
    \/ EnterMainLoop
    \/ SpecialKey
    \/ Display
    \/ Expose

Spec == Init /\ [][Next]_vars

\* main runs on to exit() or to glutMainLoop, and the event loop
\* dispatches a pending redisplay whenever it is idle
MainStep ==
    \/ MainSetup
    \/ ReadVertexSource
    \/ CompileVertex
    \/ FreeVertexSource
    \/ CheckVertex
    \/ ReadFragmentSource
    \/ CompileFragment
    \/ FreeFragmentSource
    \/ CheckFragment
    \/ LinkShaders
    \/ CheckLink
    \/ DeleteShaders
    \/ InitBuffers
    \/ RegisterCallbacks
    \/ EnterMainLoop

FairSpec == Spec /\ WF_vars(MainStep) /\ WF_vars(Display)

(***************************************************************************)
(* read_shader_source on its own: one call, on any file the environment    *)
(* may present, from an empty heap                                         *)
(***************************************************************************)
LoaderInit ==
    /\ pc = "load"
    /\ ProgramStart
    /\ ldFile \in Files(VertexPath) \cup Files(FragmentPath)
    /\ ldResult = NoResult

LoaderCall ==
    /\ pc = "load"
    /\ LET r == read_shader_source(ldFile, heap)
       IN  /\ ldResult' = [ret |-> r.ret, freads |-> r.freads]
           /\ heap' = r.heap
           /\ out' = out \o r.out
    /\ pc' = "loaded"
    /\ UNCHANGED <<exitCode, initVars, bufVars, cbVars, loopVars, ldFile>>

LoaderSpec == LoaderInit /\ [][LoaderCall]_vars


(***************************************************************************)
(* Properties                                                              *)
(***************************************************************************)
Angles == <<rotateX, rotateY, rotateZ>>

\* the product Rx(x) Ry(y) Rz(z) built on the identity
RotationXYZ(x, y, z) ==
    <<[op |-> "rotate", angle |-> x, x |-> 1, y |-> 0, z |-> 0, den |-> 1],
      [op |-> "rotate", angle |-> y, x |-> 0, y |-> 1, z |-> 0, den |-> 1],
      [op |-> "rotate", angle |-> z, x |-> 0, y |-> 0, z |-> 1, den |-> 1]>>

ScaleHalf == [op |-> "scale", angle |-> 0, x |-> 1, y |-> 1, z |-> 1, den |-> 2]

FrameVars == <<front, modelview, uniformModel>>

\* C1: the angles are 15 times the presses counted since the last Home
\* (or since the start): X = 15*(Downs - Ups), Y = 15*(Rights - Lefts),
\* Z = 15*(PageUps - PageDowns), unclamped and unwrapped; after Home all
\* counts are 0 and so are the angles.
C1_AnglesCountPresses ==
    /\ rotateX = 15 * (presses[GLUT_KEY_DOWN] - presses[GLUT_KEY_UP])
    /\ rotateY = 15 * (presses[GLUT_KEY_RIGHT] - presses[GLUT_KEY_LEFT])
    /\ rotateZ = 15 * (presses[GLUT_KEY_PAGE_UP] - presses[GLUT_KEY_PAGE_DOWN])

\* Right, Right, Down were shown as (15, 30, 0) in one frame and a fourth
\* key, Home, has brought the angles back to (0, 0, 0)
C1_Witness ==
    /\ nkeys = 4
    /\ front.batch = 3
    /\ front.angles = <<15, 30, 0>>
    /\ pending = 1
    /\ presses = NoPresses
    /\ Angles = <<0, 0, 0>>

\* C2: a key event with a key outside the seven recognized ones leaves the
\* three angles as they are and does not mark a redraw pending.
C2_UnrecognizedKeyNoOp ==
    [][\A k \in Keys \ RecognizedKeys :
          doSpecialKey(k) => UNCHANGED <<rotateX, rotateY, rotateZ, redisplay>>]_vars

\* Down was shown in a frame, then End was handled: no redraw is pending
C2_Witness ==
    /\ nkeys = 2
    /\ presses[GLUT_KEY_DOWN] = 1
    /\ presses[107] = 1
    /\ front.angles = <<15, 0, 0>>
    /\ front.batch = 1
    /\ pending = 1
    /\ ~redisplay
    /\ Angles = <<15, 0, 0>>

\* C3: every recognized key event, also one that changes no angle, marks a
\* redraw pending; the key handler renders nothing, and whatever changes
\* the frame, the matrix stack or the uniform is a dispatch of display.
C3_RecognizedKeyMarksRedraw ==
    [][/\ \A k \in RecognizedKeys : doSpecialKey(k) => redisplay'
       /\ SpecialKey => UNCHANGED FrameVars
       /\ ~UNCHANGED FrameVars => Display]_vars

\* the first frame was shown, then Home was handled with all angles 0: a
\* redraw is pending and the frame on screen is still the first one
C3_Witness ==
    /\ nkeys = 1
    /\ presses = NoPresses
    /\ pending = 1
    /\ front # Blank
    /\ front.batch = 0
    /\ Angles = <<0, 0, 0>>
    /\ redisplay

\* a shader file was not loaded, a stage did not compile or the program did
\* not link
Failure ==
    \/ out # <<>>
    \/ shader_program # 0 /\ ~glPrograms[shader_program].linked

\* C4: after a failure to load, compile or link, main goes on to exit(1)
\* and to nothing else: no geometry is uploaded, no callback is registered,
\* the event loop is not entered; the process exits only so, and the loop is
\* reached only with both sources loaded, both stages compiled and the
\* program linked.
C4_FailureExitsInInit ==
    /\ [](Failure =>
            /\ pc \in {"free_vertex", "check_vertex", "free_fragment", "check_fragment",
                       "check_link", "exited"}
            /\ glBuffers = <<>> /\ glVertexArrays = <<>>
            /\ VAO = 0 /\ VBO = 0
            /\ displayFunc = "none" /\ specialFunc = "none"
            /\ front = Blank)
    /\ [](pc = "exited" => exitCode = 1 /\ Failure)
    /\ [](pc # "exited" => exitCode = "none")
    /\ [](pc \in {"main_loop", "loop"} =>
            /\ vertex_shader_source # NULL /\ fragment_shader_source # NULL
            /\ vertex_shader # 0 /\ glShaders[vertex_shader].compiled
            /\ fragment_shader # 0 /\ glShaders[fragment_shader].compiled
            /\ shader_program # 0 /\ glPrograms[shader_program].linked)
    /\ (Failure ~> (pc = "exited" /\ exitCode = 1))

\* both stages compiled, the link failed and the process has exited
C4_Witness ==
    /\ pc = "exited"
    /\ exitCode = 1
    /\ out = <<MsgLink>>
    /\ Len(glShaders) = 2

LinkReached == glPrograms # <<>>
InitShadersReturned == pc \in {"init_buffers", "register", "main_loop", "loop"}
Released(s) == glShaders[s].deleted

\* C5 as stated: wherever init_shaders ends after reaching the link step,
\* by return or by exit, both stage objects have been released.
C5_ReleasedWhateverTheLink ==
    LinkReached /\ (InitShadersReturned \/ pc = "exited")
        => Released(vertex_shader) /\ Released(fragment_shader)

\* C5: when the link succeeded, every stage object has been released by the
\* time init_shaders returns; when it failed, the process exits with code 1
\* and neither stage object has been released.
C5_ReleasedAfterSuccessfulLink ==
    /\ InitShadersReturned =>
         /\ glPrograms[shader_program].linked
         /\ \A s \in DOMAIN glShaders : Released(s)
         /\ DOMAIN glShaders = {vertex_shader, fragment_shader}
    /\ LinkReached /\ pc = "exited" =>
         /\ ~glPrograms[shader_program].linked
         /\ exitCode = 1
         /\ ~Released(vertex_shader) /\ ~Released(fragment_shader)

\* init_shaders has just returned after a successful link
C5_Witness ==
    /\ pc = "init_buffers"
    /\ glPrograms[shader_program].linked
    /\ Released(vertex_shader) /\ Released(fragment_shader)

\* C6: a source buffer is live while compile_shader reads it, is freed once
\* before the compile result is examined, whatever that result, and where
\* init_shaders ends, by return or by exit(1), no block is live and none
\* was freed twice.
C6_SourcesFreedOnce ==
    /\ \A b \in DOMAIN heap : heap[b].frees <= 1 /\ (heap[b].live <=> heap[b].frees = 0)
    /\ \A s \in DOMAIN glShaders : glShaders[s].inBlock
    /\ pc \in {"compile_vertex", "free_vertex"} =>
         /\ heap[vertex_shader_source].live
         /\ \A b \in DOMAIN heap : heap[b].live => b = vertex_shader_source
    /\ pc \in {"compile_fragment", "free_fragment"} =>
         /\ heap[fragment_shader_source].live
         /\ \A b \in DOMAIN heap : heap[b].live => b = fragment_shader_source
    /\ pc = "free_vertex" => Len(glShaders) = 1
    /\ pc = "free_fragment" => Len(glShaders) = 2
    /\ pc = "check_vertex" => heap[vertex_shader_source].frees = 1
    /\ pc = "check_fragment" =>
         heap[vertex_shader_source].frees = 1 /\ heap[fragment_shader_source].frees = 1
    /\ pc \notin {"compile_vertex", "free_vertex", "compile_fragment", "free_fragment"} =>
         \A b \in DOMAIN heap : ~heap[b].live /\ heap[b].frees = 1

\* the fragment stage did not compile: the process has exited and both
\* sources were freed once
C6_Witness ==
    /\ pc = "exited"
    /\ out = <<MsgCompile>>
    /\ Len(glShaders) = 2
    /\ Len(heap) = 2
    /\ heap[vertex_shader_source].frees = 1
    /\ heap[fragment_shader_source].frees = 1

\* C7: one program, one vertex buffer and one vertex array are created, all
\* before the event loop; in the loop neither they, their names nor any
\* other state of the program but the three angles changes.
C7_CreatedOnceThenFixed ==
    /\ [](Len(glPrograms) <= 1 /\ Len(glBuffers) <= 1 /\ Len(glVertexArrays) <= 1)
    /\ [](pc = "loop" =>
            /\ Len(glPrograms) = 1 /\ shader_program = 1
            /\ Len(glBuffers) = 1 /\ VBO = 1 /\ glBuffers[VBO].data = vertices
            /\ Len(glVertexArrays) = 1 /\ VAO = 1 /\ glVertexArrays[VAO].buffer = VBO)
    /\ [][pc = "loop" =>
            UNCHANGED <<pc, exitCode, out, heap, initVars, bufVars, cbVars>>]_vars

\* in the loop two keys have turned the cube and a frame has shown it
C7_Witness ==
    /\ pc = "loop"
    /\ nkeys = 2
    /\ Angles = <<15, 15, 0>>
    /\ front.angles = <<15, 15, 0>>
    /\ Len(glVertexArrays) = 1

\* C8: read_shader_source returns a live block of N+1 bytes, the N bytes of
\* the file followed by a NUL, or returns NULL and leaves no block behind;
\* it returns NULL with the open failure printed when the file cannot be
\* opened, and NULL after a single fread when fewer than N bytes were read.
C8_LoaderAllOrNothing ==
    pc = "loaded" =>
        LET N == Len(ldFile.content)
            p == ldResult.ret
        IN  /\ p # NULL =>
                 /\ heap[p].live
                 /\ Len(heap[p].bytes) = N + 1
                 /\ \A i \in 1..N : heap[p].bytes[i] = ldFile.content[i]
                 /\ heap[p].bytes[N + 1] = 0
                 /\ out = <<>>
            /\ p = NULL => \A b \in DOMAIN heap : ~heap[b].live
            /\ ~ldFile.exists => p = NULL /\ out = <<MsgOpen(ldFile.path)>>
            /\ ldFile.exists /\ ldFile.mem /\ ldFile.avail < N =>
                 p = NULL /\ ldResult.freads = 1
            /\ ldFile.exists /\ ldFile.mem /\ ldFile.avail = N => p # NULL

\* a file of two bytes was read in full
C8_Witness ==
    /\ pc = "loaded"
    /\ ldFile.content = <<47, 47>>
    /\ ldResult.ret # NULL
    /\ heap[ldResult.ret].bytes = <<47, 47, 0>>

\* C9: each frame gives glUniformMatrix4fv the product of the rotations
\* about X, Y and Z by the angles of that moment, built on the identity;
\* the scale by 0.5 reaches only the matrix stack, after the upload, and
\* the stack the frame leaves behind holds it once.
C9_UploadedMatrixIsRotationOnly ==
    [][Display =>
          /\ front'.uploaded = RotationXYZ(rotateX, rotateY, rotateZ)
          /\ modelview' = Append(RotationXYZ(rotateX, rotateY, rotateZ), ScaleHalf)
          /\ glPrograms[shader_program].modelLoc # -1 =>
                uniformModel' = RotationXYZ(rotateX, rotateY, rotateZ)]_vars

\* a frame rendered after an earlier one (no key since the frame before),
\* showing the rotation of one Down
C9_Witness ==
    /\ front.batch = 0
    /\ front.angles = <<15, 0, 0>>
    /\ front.uploaded = RotationXYZ(15, 0, 0)
    /\ modelview = Append(RotationXYZ(15, 0, 0), ScaleHalf)

\* the frame on screen was rendered with the angles as they are now
FrameIsCurrent == front.uploaded = RotationXYZ(rotateX, rotateY, rotateZ)

\* C10: a pending redraw leads to a frame rendered with the angles of the
\* moment of rendering; one dispatch of display settles the redraw however
\* many keys were handled before it, so whenever no redraw is pending the
\* frame on screen shows the current angles.
C10_PendingRedrawShowsCurrentAngles ==
    /\ [](pc = "loop" /\ ~redisplay => FrameIsCurrent)
    /\ [][Display => ~redisplay' /\ front'.uploaded = RotationXYZ(rotateX, rotateY, rotateZ)
                     /\ UNCHANGED <<rotateX, rotateY, rotateZ>>]_vars
    /\ ((pc = "loop" /\ redisplay) ~> (~redisplay /\ FrameIsCurrent))

\* three keys handled before one dispatch of display: the one frame shows
\* Right, Right, Down together
C10_Witness ==
    /\ nkeys = 3
    /\ front.batch = 3
    /\ front.angles = <<15, 30, 0>>
    /\ FrameIsCurrent
    /\ ~redisplay

====
